---- MODULE Spec2Model ----
(***************************************************************************)
(* Model of the trending-topic article generator (src/main.py): trend      *)
(* discovery, subtopic expansion, source aggregation, image fallback and   *)
(* idempotent publication, with the orchestrating run of main.             *)
(*                                                                         *)
(* A Python str is a sequence of one-character strings, so that lower(),   *)
(* strip(), f-string concatenation, slicing and slugify are computed.      *)
(***************************************************************************)
EXTENDS Integers, Sequences, FiniteSets, TLC

VARIABLES
    pc,         \* position of the process / of the call under analysis
    error,      \* exception that left main or make_article ("none" if none)
    cfg,        \* CFG: FETCH_SOURCES, FETCH_IMAGES, ALLOW_WIKIMEDIA_IMAGES
    seed,       \* term handed to fetch_related_queries (terms[0] in main)
    limit,      \* cfg ARTICLES_PER_CYCLE, the slice bound of main line 239
    rq,         \* outcome of the related-query provider
    subtopics,  \* fetch_related_queries(seed)[:limit]
    provs,      \* keys and outcomes of the source providers for one subtopic
    srcs,       \* the source list main hands to make_article
    imgs,       \* credentials and outcomes of the image providers for one subtopic
    img,        \* what pick_image returned
    called,     \* the image providers requested by that call, in order
    ma,         \* arguments of the make_article call in progress
    ret,        \* what make_article returned: None, or the location written
    dirs,       \* record store: the identifiers whose directory exists
    files,      \* record store: identifier -> content of its index.md
    entry,      \* history: files when the call in progress was entered
    last,       \* history: (topic, subtopic) of the previous call that returned
    driver,     \* who calls make_article: "main", or "call" for a direct call
    trends,     \* outcome of the trending-term provider, per region
    terms,      \* fetch_trending_terms(regions)
    i,          \* main: index in subtopics of the one being processed
    created,    \* main: the locations collected for the report
    files0      \* history: files when the run started

vExpand == <<seed, limit, rq, subtopics>>
vSources == <<provs, srcs>>
vImage == <<imgs, img, called>>
vPublish == <<ma, ret, dirs, files, entry, last>>
vMain == <<driver, trends, terms, i, created, files0>>
vars == <<pc, error, cfg, vExpand, vSources, vImage, vPublish, vMain>>

(***************************************************************************)
(* Python values                                                           *)
(***************************************************************************)
\* an optional value: None, or Some(x)
None == [some |-> FALSE]
Some(x) == [some |-> TRUE, val |-> x]

Min(a, b) == IF a < b THEN a ELSE b

\* s[:n] for n >= 0
Take(s, n) == SubSeq(s, 1, Min(n, Len(s)))

UpperCase == <<"A","B","C","D","E","F","G","H","I","J","K","L","M",
               "N","O","P","Q","R","S","T","U","V","W","X","Y","Z">>
LowerCase == <<"a","b","c","d","e","f","g","h","i","j","k","l","m",
               "n","o","p","q","r","s","t","u","v","w","x","y","z">>

\* A character is a code point below U+0100 (ASCII and the Latin-1 supplement);
\* these are the cased ones among U+00C0-U+00DE and their lowercase
Latin1Upper == <<"À","Á","Â","Ã","Ä","Å","Æ","Ç","È","É",
                 "Ê","Ë","Ì","Í","Î","Ï","Ð","Ñ","Ò","Ó",
                 "Ô","Õ","Ö","Ø","Ù","Ú","Û","Ü","Ý","Þ">>
Latin1Lower == <<"à","á","â","ã","ä","å","æ","ç","è","é",
                 "ê","ë","ì","í","î","ï","ð","ñ","ò","ó",
                 "ô","õ","ö","ø","ù","ú","û","ü","ý","þ">>

\* str.lower() of one character
lower_char(c) ==
    IF \E k \in 1..26 : UpperCase[k] = c
    THEN LowerCase[CHOOSE k \in 1..26 : UpperCase[k] = c]
    ELSE IF \E k \in 1..Len(Latin1Upper) : Latin1Upper[k] = c
    THEN Latin1Lower[CHOOSE k \in 1..Len(Latin1Upper) : Latin1Upper[k] = c]
    ELSE c

\* str.lower()
lower(s) == [k \in 1..Len(s) |-> lower_char(s[k])]

\* the characters str.strip() removes: those for which str.isspace() holds,
\* U+0009-U+000D, U+001C-U+001F, U+0020, U+0085 and U+00A0
Whitespace ==
    {"\t", "\n", "", "\f", "\r", "", "", "", "", " ", "", " "}

IsSpace(c) == c \in Whitespace

RECURSIVE lstrip(_)
lstrip(s) == IF s # <<>> /\ IsSpace(Head(s)) THEN lstrip(Tail(s)) ELSE s

RECURSIVE rstrip(_)
rstrip(s) ==
    IF s # <<>> /\ IsSpace(s[Len(s)]) THEN rstrip(SubSeq(s, 1, Len(s) - 1)) ELSE s

\* str.strip()
strip(s) == rstrip(lstrip(s))

(***************************************************************************)
(* fetch_trending_terms, src/main.py 26-46                                 *)
(***************************************************************************)
TrendCap == 20

\* lines 33-36 for one region: nothing when trending_searches raises, else the
\* strings of the column, stripped; an item that is no str is None here
RECURSIVE StrippedStrings(_)
StrippedStrings(items) ==
    IF items = <<>> THEN <<>>
    ELSE IF Head(items) = None THEN StrippedStrings(Tail(items))
    ELSE <<strip(Head(items).val)>> \o StrippedStrings(Tail(items))

\* lines 31-38: the regions in order, a failing one skipped
RECURSIVE Keywords(_)
Keywords(regions) ==
    IF regions = <<>> THEN <<>>
    ELSE (IF Head(regions).kind = "ok" THEN StrippedStrings(Head(regions).terms) ELSE <<>>)
            \o Keywords(Tail(regions))

\* lines 40-45
RECURSIVE DedupTerms(_, _, _)
DedupTerms(keywords, uniq, seen) ==
    IF keywords = <<>> THEN uniq
    ELSE LET k == Head(keywords)
         IN IF lower(k) \notin seen
            THEN DedupTerms(Tail(keywords), Append(uniq, k), seen \cup {lower(k)})
            ELSE DedupTerms(Tail(keywords), uniq, seen)

\* t.available: TrendReq was imported; t.client: "ok", or "raise" when the
\* constructor of line 29, which is outside every try, raises; t.regions: the
\* outcome per region. The result is the list, or the exception that leaves
\* the function
fetch_trending_terms(t) ==
    IF ~t.available THEN [err |-> "none", terms |-> <<>>]
    ELSE IF t.client = "raise" THEN [err |-> "Exception", terms |-> <<>>]
    ELSE [err |-> "none",
          terms |-> Take(DedupTerms(Keywords(t.regions), <<>>, {}), TrendCap)]

(***************************************************************************)
(* fetch_related_queries, src/main.py 48-74                                *)
(***************************************************************************)
RelatedPerKey == 10
RelatedCap == 8

\* the f-string suffixes of line 64
SufExplained == <<" ","e","x","p","l","a","i","n","e","d">>
SufProsCons == <<" ","p","r","o","s"," ","a","n","d"," ","c","o","n","s">>
SufVsAlt == <<" ","v","s"," ","a","l","t","e","r","n","a","t","i","v","e","s">>
SufLatest == <<" ","l","a","t","e","s","t"," ","n","e","w","s">>
\* the f-string suffixes of line 74
SufOverview == <<" ","o","v","e","r","v","i","e","w">>
SufKeyFacts == <<" ","k","e","y"," ","f","a","c","t","s">>
SufFAQs == <<" ","F","A","Q","s">>
SufTimeline == <<" ","t","i","m","e","l","i","n","e">>

\* line 64: the generic angles used when no related query came back
GenericAngles(term) ==
    <<term \o SufExplained, term \o SufProsCons, term \o SufVsAlt, term \o SufLatest>>

\* line 74: the list returned from the except branch
FailureAngles(term) ==
    <<term \o SufOverview, term \o SufKeyFacts, term \o SufFAQs, term \o SufTimeline>>

\* line 59-61: df["query"].tolist()[:10] of one key, nothing when the key is None
QueryColumn(df) == IF df = None THEN <<>> ELSE Take(df.val, RelatedPerKey)

\* the same with "top" read before "rising"
RelatedTopFirst(r) == QueryColumn(r.top) \o QueryColumn(r.rising)

\* lines 56-61: for key in ("rising", "top"): related.extend(...)
Related(r) == QueryColumn(r.rising) \o QueryColumn(r.top)

\* lines 66-70: the loop that strips, drops blanks, the term itself and repeats
RECURSIVE DedupQueries(_, _, _, _)
DedupQueries(related, term, out, seen) ==
    IF related = <<>> THEN out
    ELSE LET q == Head(related)
             qn == lower(strip(q))
         IN IF qn # <<>> /\ qn \notin seen /\ qn # lower(term)
            THEN DedupQueries(Tail(related), term, Append(out, strip(q)), seen \cup {qn})
            ELSE DedupQueries(Tail(related), term, out, seen)

\* the whole function; r.kind is "unavailable" (TrendReq is None), "raise" (any
\* exception inside the try) or "ok" (related_queries() answered)
fetch_related_queries(term, r) ==
    IF r.kind = "unavailable" THEN <<>>
    ELSE IF r.kind = "raise" THEN FailureAngles(term)
    ELSE LET related == Related(r)
             filled == IF related = <<>> THEN GenericAngles(term) ELSE related
         IN Take(DedupQueries(filled, term, <<>>, {}), RelatedCap)

\* main line 239: fetch_related_queries(seed)[:ARTICLES_PER_CYCLE]
Expand(term, r, n) == Take(fetch_related_queries(term, r), n)

(***************************************************************************)
(* Inputs of the expansion                                                 *)
(***************************************************************************)
MaxLimit == 9
MaxQ == 11

SX == <<"X">>
SFoo == <<"F","o","o">>
SFooNews == <<"F","o","o"," ","n","e","w","s">>
SFooNEWS == <<"F","O","O"," ","N","E","W","S">>
SFooFacts == <<"F","o","o"," ","f","a","c","t","s">>
SBlank == <<" "," ">>
SEcoleUpper == <<"É","C","O","L","E">>
SEcoleLower == <<"é","c","o","l","e">>
SFooCrLf == <<"F","o","o"," ","n","e","w","s","\r","\n">>
SNbspFactsFf == <<" ","F","o","o"," ","f","a","c","t","s","\f">>

Seeds == {SX, SFoo}

Digits == <<"0","1","2","3","4","5","6","7","8","9">>
\* the query "q<n>"
Q(n) == IF n < 10 THEN <<"q", Digits[n + 1]>>
        ELSE <<"q", Digits[(n \div 10) + 1], Digits[(n % 10) + 1]>>
QList(n) == [k \in 1..n |-> Q(k)]
Rep(x, n) == [k \in 1..n |-> x]
Pad(s) == <<" ">> \o s \o <<" ">>

QueryLists(term) ==
    {<<>>, <<term>>, <<lower(term), term>>, <<Pad(term)>>, <<SBlank>>,
     <<SFooNews>>, <<SFooFacts, SFooNews>>,
     <<SFooNEWS, term, Pad(SFooFacts), SFooNews>>,
     <<SEcoleUpper, SEcoleLower>>, <<SFooCrLf, SNbspFactsFf, SFooNews, SFooFacts>>,
     Rep(term, RelatedPerKey) \o <<Q(1)>>}
    \cup {QList(n) : n \in 1..MaxQ}

\* data.get(key): None, or a frame whose "query" column is the list
DataFrames(term) == {None} \cup {Some(l) : l \in QueryLists(term)}

Responses(term) ==
    {[kind |-> "unavailable"], [kind |-> "raise"]}
    \cup {[kind |-> "ok", rising |-> a, top |-> b] :
            a \in DataFrames(term), b \in DataFrames(term)}

EmptyResponse == [kind |-> "ok", rising |-> None, top |-> None]

(***************************************************************************)
(* Configuration (config.yaml as read by load_cfg, with the defaults of    *)
(* the cfg.get calls)                                                      *)
(***************************************************************************)
DefaultCfg ==
    [FETCH_SOURCES |-> TRUE, FETCH_IMAGES |-> TRUE, ALLOW_WIKIMEDIA_IMAGES |-> TRUE]

Configs ==
    [FETCH_SOURCES : BOOLEAN, FETCH_IMAGES : BOOLEAN, ALLOW_WIKIMEDIA_IMAGES : BOOLEAN]

(***************************************************************************)
(* Source providers, src/main.py 76-133, and their aggregation, 245-256    *)
(***************************************************************************)
SourceCap == 5
WikiLimit == 2
GuardianLimit == 2
NytLimit == 1

\* a JSON value found where a url is expected: null, a string, a number, a
\* boolean, an array of n elements or an object of n members
JNull == [ty |-> "null"]
JStr(v) == [ty |-> "str", v |-> v]
JNum(n) == [ty |-> "num", v |-> n]
JBool(b) == [ty |-> "bool", v |-> b]
JList(n) == [ty |-> "list", v |-> n]
JObj(n) == [ty |-> "obj", v |-> n]

\* Python truth of the value: None, "", 0, False, [] and {} are false
Truthy(u) ==
    IF u.ty = "null" THEN FALSE
    ELSE IF u.ty = "str" THEN u.v # ""
    ELSE IF u.ty = "bool" THEN u.v
    ELSE u.v # 0
\* whether the value can be a member of a set: a list and a dict cannot
Hashable(u) == u.ty \notin {"list", "obj"}
\* the member of a set the value is: True is 1 and False is 0
SetKey(u) == IF u.ty = "bool" THEN JNum(IF u.v THEN 1 ELSE 0) ELSE u

Ref(title, url) == [title |-> title, url |-> url]

\* lines 91-100: the summary request of one title; pg.kind is "raise", "status"
\* (status_code is not 200) or "ok", pg.page the content_urls.desktop.page found
RECURSIVE WikiSummaries(_, _)
WikiSummaries(pages, results) ==
    IF pages = <<>> THEN results
    ELSE LET pg == Head(pages)
         IN IF pg.kind = "ok" /\ Truthy(pg.page)
            THEN WikiSummaries(Tail(pages), Append(results, Ref(pg.title, pg.page)))
            ELSE WikiSummaries(Tail(pages), results)

\* w.search is "raise", "http_error" (raise_for_status), "malformed" (the payload
\* is no list of more than one element) or "ok"; w.pages the outcome per title
wiki_search(w, lim) ==
    LET tries == IF w.search = "ok" THEN w.pages ELSE <<>>
    IN Take(WikiSummaries(tries, <<>>), lim)

\* g.kind is "raise", "http_error", "malformed" (a .get on a non-dict raises) or
\* "ok" with g.results the {webTitle, webUrl} found
guardian_search(g, key, lim) ==
    IF ~key THEN <<>>
    ELSE IF g.kind = "ok" THEN Take(g.results, lim)
    ELSE <<>>

\* n.kind as for guardian_search, n.results the docs [:limit]
nyt_search(n, key, lim) ==
    IF ~key THEN <<>>
    ELSE IF n.kind = "ok" THEN Take(n.results, lim)
    ELSE <<>>

\* main 247-249: the contributions in provider order
Contributions(p) ==
    wiki_search(p.wiki, WikiLimit)
        \o (IF p.gkey THEN guardian_search(p.guardian, p.gkey, GuardianLimit) ELSE <<>>)
        \o (IF p.nytkey THEN nyt_search(p.nyt, p.nytkey, NytLimit) ELSE <<>>)

\* the loop without seen.add(u)
RECURSIVE DedupByUrlNoSeen(_, _, _)
DedupByUrlNoSeen(s, uniq, seen) ==
    IF s = <<>> THEN [err |-> "none", srcs |-> uniq]
    ELSE LET u == Head(s).url
         IN IF ~Truthy(u) THEN DedupByUrlNoSeen(Tail(s), uniq, seen)
            ELSE IF ~Hashable(u) THEN [err |-> "TypeError", srcs |-> <<>>]
            ELSE IF SetKey(u) \notin seen
                 THEN DedupByUrlNoSeen(Tail(s), Append(uniq, Head(s)), seen)
                 ELSE DedupByUrlNoSeen(Tail(s), uniq, seen)

\* main 251-255: "u and u not in seen"; the membership test hashes u and raises
\* TypeError on an unhashable one
RECURSIVE DedupByUrl(_, _, _)
DedupByUrl(s, uniq, seen) ==
    IF s = <<>> THEN [err |-> "none", srcs |-> uniq]
    ELSE LET u == Head(s).url
         IN IF ~Truthy(u) THEN DedupByUrl(Tail(s), uniq, seen)
            ELSE IF ~Hashable(u) THEN [err |-> "TypeError", srcs |-> <<>>]
            ELSE IF SetKey(u) \notin seen
                 THEN DedupByUrl(Tail(s), Append(uniq, Head(s)), seen \cup {SetKey(u)})
                 ELSE DedupByUrl(Tail(s), uniq, seen)

\* main 245-256: srcs for one subtopic, or the exception that leaves the loop
Aggregate(c, p) ==
    IF ~c.FETCH_SOURCES THEN [err |-> "none", srcs |-> <<>>]
    ELSE LET d == DedupByUrl(Contributions(p), <<>>, {})
         IN [err |-> d.err, srcs |-> Take(d.srcs, SourceCap)]

(***************************************************************************)
(* Inputs of the aggregation                                               *)
(***************************************************************************)
MaxGuardian == 2

U1 == JStr("https://a.org/x")
U1c == JStr("https://a.org/X")
U2 == JStr("https://b.org/y")
U3 == JStr("https://c.org/z")

Page(t, u) == [kind |-> "ok", title |-> t, page |-> u]
PageRaise == [kind |-> "raise", title |-> "w0", page |-> JNull]
PageStatus == [kind |-> "status", title |-> "w0", page |-> U3]

WikiOutcomes ==
    {[search |-> k, pages |-> <<>>] : k \in {"raise", "http_error", "malformed"}}
    \cup {[search |-> "ok", pages |-> l] :
            l \in {<<>>, <<Page("w1", U1)>>, <<Page("w1", U1), Page("w2", U2)>>,
                   <<Page("w1", U2), Page("w2", U2)>>,
                   <<PageRaise, Page("w1", U1), PageStatus, Page("w2", U1c)>>,
                   <<Page("w1", JNull), Page("w2", U2)>>,
                   <<Page("w1", U1), Page("w2", U2), Page("w3", U3)>>,
                   <<Page("w1", JList(1))>>,
                   <<Page("w1", JList(0)), Page("w2", JNum(0)), Page("w3", JBool(FALSE)),
                     Page("w4", JObj(0)), Page("w5", U3)>>,
                   <<Page("w1", JNum(1))>>}}

GuardianEntries ==
    {Ref("g1", U1), Ref("g2", U1), Ref("g1", U1c), Ref("g1", U2),
     Ref("g1", JNull), Ref("g1", JStr("")), Ref("g1", JList(1)), Ref("g1", JList(0))}

RECURSIVE SeqsUpTo(_, _)
SeqsUpTo(S, n) ==
    IF n = 0 THEN {<<>>}
    ELSE LET shorter == SeqsUpTo(S, n - 1)
         IN shorter \cup {Append(l, x) : l \in shorter, x \in S}

GuardianOutcomes ==
    {[kind |-> k, results |-> <<>>] : k \in {"raise", "http_error", "malformed"}}
    \cup {[kind |-> "ok", results |-> l] : l \in SeqsUpTo(GuardianEntries, MaxGuardian)}

NytOutcomes ==
    {[kind |-> k, results |-> <<>>] : k \in {"raise", "http_error"}}
    \cup {[kind |-> "ok", results |-> l] :
            l \in {<<>>, <<Ref("n1", U1)>>, <<Ref("n1", U3), Ref("n2", U1)>>,
                   <<Ref("n1", U2)>>, <<Ref("n1", JNull)>>,
                   <<Ref("n1", JBool(TRUE))>>, <<Ref("n1", JObj(1))>>}}

SourceInputs ==
    [wiki : WikiOutcomes, guardian : GuardianOutcomes, nyt : NytOutcomes,
     gkey : BOOLEAN, nytkey : BOOLEAN]

NoProviders ==
    [wiki |-> [search |-> "raise", pages |-> <<>>],
     guardian |-> [kind |-> "raise", results |-> <<>>],
     nyt |-> [kind |-> "raise", results |-> <<>>],
     gkey |-> FALSE, nytkey |-> FALSE]

IdleExpand == seed = <<>> /\ limit = 0 /\ rq = EmptyResponse /\ subtopics = <<>>
IdleSources == provs = NoProviders /\ srcs = <<>>

(***************************************************************************)
(* pick_image, src/main.py 135-187                                         *)
(***************************************************************************)
\* what each branch returns: url, credit_text, credit_url
PexelsImage ==
    [url |-> "https://pexels/large.jpg", credit_text |-> "Photo by A on Pexels",
     credit_url |-> "https://pexels/photo"]
UnsplashImage ==
    [url |-> "https://unsplash/regular.jpg", credit_text |-> "Photo by B on Unsplash",
     credit_url |-> "https://unsplash/@b"]
WikimediaImage ==
    [url |-> "https://upload.wikimedia/original.jpg",
     credit_text |-> "Wikimedia Commons / T", credit_url |-> "https://commons.wikimedia.org/"]

\* One HTTP exchange: o.exc, requests.get raised; o.ok, the status is a success;
\* o.body, the payload: "not_json" (r.json() raises), "not_dict" (.get raises),
\* "empty" (no photo, result or page), "bad_item" (the first item lacks the
\* fields read) or "usable".

\* lines 140-152 and 154-167: raise_for_status, then the first item
KeyedResult(o) ==
    IF o.exc \/ ~o.ok THEN "raise"
    ELSE IF o.body \in {"not_json", "not_dict", "bad_item"} THEN "raise"
    ELSE IF o.body = "empty" THEN "none"
    ELSE "image"

\* lines 169-186: no raise_for_status; the first page with original.source
WikimediaResult(o) ==
    IF o.exc THEN "raise"
    ELSE IF o.body \in {"not_json", "not_dict"} THEN "raise"
    ELSE IF o.body \in {"empty", "bad_item"} THEN "none"
    ELSE "image"

\* the same with Unsplash asked before Pexels
pick_image_unsplash_first(c, e) ==
    LET px == e.pexels_key /\ KeyedResult(e.pexels) = "image"
        us == e.unsplash_key /\ KeyedResult(e.unsplash) = "image"
        wm == c.ALLOW_WIKIMEDIA_IMAGES /\ WikimediaResult(e.wikimedia) = "image"
        a == IF e.unsplash_key THEN <<"unsplash">> ELSE <<>>
        b == IF e.pexels_key THEN <<"pexels">> ELSE <<>>
        w == IF c.ALLOW_WIKIMEDIA_IMAGES THEN <<"wikimedia">> ELSE <<>>
    IN IF us THEN [img |-> Some(UnsplashImage), called |-> a]
       ELSE IF px THEN [img |-> Some(PexelsImage), called |-> a \o b]
       ELSE IF wm THEN [img |-> Some(WikimediaImage), called |-> a \o b \o w]
       ELSE [img |-> None, called |-> a \o b \o w]

\* the whole function: every except falls through to the next provider
pick_image(c, e) ==
    LET px == e.pexels_key /\ KeyedResult(e.pexels) = "image"
        us == e.unsplash_key /\ KeyedResult(e.unsplash) = "image"
        wm == c.ALLOW_WIKIMEDIA_IMAGES /\ WikimediaResult(e.wikimedia) = "image"
        a == IF e.pexels_key THEN <<"pexels">> ELSE <<>>
        b == IF e.unsplash_key THEN <<"unsplash">> ELSE <<>>
        w == IF c.ALLOW_WIKIMEDIA_IMAGES THEN <<"wikimedia">> ELSE <<>>
    IN IF px THEN [img |-> Some(PexelsImage), called |-> a]
       ELSE IF us THEN [img |-> Some(UnsplashImage), called |-> a \o b]
       ELSE IF wm THEN [img |-> Some(WikimediaImage), called |-> a \o b \o w]
       ELSE [img |-> None, called |-> a \o b \o w]

(***************************************************************************)
(* Inputs of the image search                                              *)
(***************************************************************************)
Bodies == {"not_json", "not_dict", "empty", "bad_item", "usable"}

Exchanges ==
    {[exc |-> TRUE, ok |-> FALSE, body |-> "not_json"]}
    \cup {[exc |-> FALSE, ok |-> k, body |-> b] : k \in BOOLEAN, b \in Bodies}

ImageInputs ==
    [pexels_key : BOOLEAN, unsplash_key : BOOLEAN,
     pexels : Exchanges, unsplash : Exchanges, wikimedia : Exchanges]

NoExchange == [exc |-> TRUE, ok |-> FALSE, body |-> "not_json"]
NoImages ==
    [pexels_key |-> FALSE, unsplash_key |-> FALSE,
     pexels |-> NoExchange, unsplash |-> NoExchange, wikimedia |-> NoExchange]

IdleImage == imgs = NoImages /\ img = None /\ called = <<>>

(***************************************************************************)
(* make_article, src/main.py 189-228, on the record store                  *)
(***************************************************************************)
SlugMax == 80

IsAlnum(c) ==
    \/ \E k \in 1..26 : LowerCase[k] = c
    \/ c \in {"0","1","2","3","4","5","6","7","8","9"}

\* every run of characters that are no letter and no digit becomes one "-"
RECURSIVE Dashed(_, _)
Dashed(s, out) ==
    IF s = <<>> THEN out
    ELSE IF IsAlnum(Head(s)) THEN Dashed(Tail(s), Append(out, Head(s)))
    ELSE IF out # <<>> /\ out[Len(out)] = "-" THEN Dashed(Tail(s), out)
    ELSE Dashed(Tail(s), Append(out, "-"))

RECURSIVE StripDash(_)
StripDash(s) ==
    IF s # <<>> /\ Head(s) = "-" THEN StripDash(Tail(s))
    ELSE IF s # <<>> /\ s[Len(s)] = "-" THEN StripDash(SubSeq(s, 1, Len(s) - 1))
    ELSE s

\* the slugify library on ASCII text: lowercase, separators, no outer "-"
slugify(text) == StripDash(Dashed(lower(text), <<>>))

SufWhatYouNeed ==
    <<":"," ","W","h","a","t"," ","y","o","u"," ","n","e","e","d"," ","t","o"," ",
      "k","n","o","w">>

\* line 190
Title(topic, subtopic) ==
    IF lower(subtopic) # lower(topic) THEN subtopic ELSE topic \o SufWhatYouNeed

\* line 191: the identifier; the record is SITE_CONTENT / slug / "index.md"
Slug(topic, subtopic) == Take(slugify(Title(topic, subtopic)), SlugMax)

\* line 225: open(path, "w") leaves an empty file until f.write has run
EmptyFile ==
    [state |-> "partial", title |-> <<>>, tag |-> <<>>, topic |-> <<>>,
     image |-> None, sources |-> <<>>]

\* lines 208-226: the header fields that depend on the arguments (title, first
\* tag, image, sources) and the topic named by the body
Record(a) ==
    [state |-> "complete", title |-> Title(a.topic, a.subtopic),
     tag |-> slugify(a.topic), topic |-> a.topic,
     image |-> a.image, sources |-> a.sources]

\* the test that skips only a record that was written to its end
PathExistsComplete(slug) == slug \in DOMAIN files /\ files[slug].state = "complete"

\* line 193: path.exists()
PathExists(slug) == slug \in DOMAIN files

CurSlug == Slug(ma.topic, ma.subtopic)

\* lines 190-195: return None when the record exists, else create its directory
MA_Enter ==
    /\ pc = "ma_enter"
    /\ IF PathExists(CurSlug)
       THEN /\ ret' = None
            /\ pc' = "ma_ret"
            /\ UNCHANGED dirs
       ELSE /\ dirs' = dirs \cup {CurSlug}
            /\ pc' = "ma_open"
            /\ UNCHANGED ret
    /\ UNCHANGED <<error, cfg, vExpand, vSources, vImage, ma, files, entry, last, vMain>>

\* line 195: path.parent.mkdir raises OSError; nothing was created
MA_MkdirFail ==
    /\ pc = "ma_enter"
    /\ ~PathExists(CurSlug)
    /\ CurSlug \notin dirs
    /\ error' = "OSError"
    /\ pc' = "crashed"
    /\ UNCHANGED <<cfg, vExpand, vSources, vImage, vPublish, vMain>>

\* line 225: open(path, "w") creates the file, or truncates the one there
MA_Open ==
    /\ pc = "ma_open"
    /\ files' = (CurSlug :> EmptyFile) @@ files
    /\ pc' = "ma_write"
    /\ UNCHANGED <<error, cfg, vExpand, vSources, vImage, ma, ret, dirs, entry, last, vMain>>

\* line 225: open raises OSError; the directory stays
MA_OpenFail ==
    /\ pc = "ma_open"
    /\ error' = "OSError"
    /\ pc' = "crashed"
    /\ UNCHANGED <<cfg, vExpand, vSources, vImage, vPublish, vMain>>

\* lines 226-228: f.write(header + body_intro), close, return str(path)
MA_Write ==
    /\ pc = "ma_write"
    /\ files' = [files EXCEPT ![CurSlug] = Record(ma)]
    /\ ret' = Some(CurSlug)
    /\ pc' = "ma_ret"
    /\ UNCHANGED <<error, cfg, vExpand, vSources, vImage, ma, dirs, entry, last, vMain>>

\* line 226: the write raises OSError, or the process is killed before it; the
\* file stays as open left it
MA_WriteFail ==
    /\ pc = "ma_write"
    /\ error' = "OSError"
    /\ pc' = "crashed"
    /\ UNCHANGED <<cfg, vExpand, vSources, vImage, vPublish, vMain>>

make_article ==
    MA_Enter \/ MA_MkdirFail \/ MA_Open \/ MA_OpenFail \/ MA_Write \/ MA_WriteFail

(***************************************************************************)
(* Inputs of the publication                                               *)
(***************************************************************************)
Sfoo == <<"f","o","o">>

PublishTopics == {SFoo}
PublishSubtopics == {SFooNews, SFooNEWS, Sfoo, SFooFacts}
PublishSources == {<<>>, <<Ref("w1", U1)>>}
PublishImages == {None, Some(PexelsImage)}

NoArgs == [topic |-> <<>>, subtopic |-> <<>>, sources |-> <<>>, image |-> None]
NoCall == <<>>

IdlePublish ==
    /\ ma = NoArgs /\ ret = None /\ dirs = {} /\ files = <<>>
    /\ entry = [files |-> <<>>, dirs |-> {}] /\ last = NoCall

(***************************************************************************)
(* main, src/main.py 230-263                                               *)
(***************************************************************************)
MaxArticles == 2

Sbar == <<"b","a","r">>
SFOO == <<"F","O","O">>

RegionFails == [kind |-> "raise", terms |-> <<>>]
RegionOk(l) == [kind |-> "ok", terms |-> l]

Trends(l) == [available |-> TRUE, client |-> "ok", regions |-> l]

TrendOutcomes ==
    {[available |-> FALSE, client |-> "ok", regions |-> <<>>],
     [available |-> TRUE, client |-> "raise", regions |-> <<RegionOk(<<Some(SFoo)>>)>>],
     Trends(<<RegionFails, RegionFails>>),
     Trends(<<RegionFails, RegionOk(<<Some(SFoo), Some(Sbar), Some(SFOO)>>)>>),
     Trends(<<RegionOk(<<None, Some(Pad(SFoo))>>), RegionFails>>),
     Trends(<<RegionOk(<<Some(SFoo \o <<"\r", "\n">>), Some(Sfoo)>>)>>),
     Trends(<<RegionOk(<<Some(SX)>>), RegionOk(<<Some(SFoo)>>)>>),
     Trends(<<RegionOk([k \in 1..(TrendCap + 1) |-> Some(Q(k))])>>)}

NoTrends == [available |-> FALSE, client |-> "ok", regions |-> <<>>]

RunConfigs ==
    {DefaultCfg,
     [FETCH_SOURCES |-> FALSE, FETCH_IMAGES |-> FALSE, ALLOW_WIKIMEDIA_IMAGES |-> FALSE]}

RunResponses(term) ==
    {[kind |-> "raise"], EmptyResponse,
     [kind |-> "ok", rising |-> Some(<<term>>), top |-> None],
     [kind |-> "ok", rising |-> Some(<<SFooNews>>), top |-> Some(<<SFooFacts, SFooNews>>)]}

GuardianOk(l) == [kind |-> "ok", results |-> l]

RunSourceInputs ==
    {NoProviders,
     [NoProviders EXCEPT
        !.wiki = [search |-> "ok", pages |-> <<Page("w1", U1), Page("w2", U2)>>],
        !.gkey = TRUE, !.guardian = GuardianOk(<<Ref("g1", U2), Ref("g2", U3)>>)],
     [NoProviders EXCEPT !.gkey = TRUE, !.guardian = GuardianOk(<<Ref("g1", JList(1))>>)],
     [NoProviders EXCEPT !.gkey = TRUE, !.guardian = GuardianOk(<<Ref("g1", JList(0))>>)]}

UsableExchange == [exc |-> FALSE, ok |-> TRUE, body |-> "usable"]

RunImageInputs ==
    {NoImages, [NoImages EXCEPT !.pexels_key = TRUE, !.pexels = UsableExchange]}

\* a record left by an earlier run
OldRecord ==
    [state |-> "complete", title |-> SFooNews, tag |-> Sfoo, topic |-> SFoo,
     image |-> None, sources |-> <<>>]

InitialStores ==
    {[files |-> <<>>, dirs |-> {}],
     [files |-> (slugify(SFooNews) :> OldRecord), dirs |-> {slugify(SFooNews)}]}

IdleMain ==
    /\ driver = "none" /\ trends = NoTrends /\ terms = <<>> /\ i = 0
    /\ created = <<>> /\ files0 = <<>>

Init ==
    /\ pc = "start"
    /\ error = "none"
    /\ driver = "main"
    /\ cfg \in RunConfigs
    /\ limit \in 1..MaxArticles
    /\ \E st \in InitialStores : files = st.files /\ dirs = st.dirs /\ files0 = st.files
    /\ seed = <<>> /\ rq = EmptyResponse /\ subtopics = <<>>
    /\ IdleSources
    /\ IdleImage
    /\ ma = NoArgs /\ ret = None /\ entry = [files |-> <<>>, dirs |-> {}] /\ last = NoCall
    /\ trends = NoTrends /\ terms = <<>> /\ i = 0 /\ created = <<>>

\* lines 232-238: discover; the exception of fetch_trending_terms leaves main;
\* return when nothing was found, else seed on terms[0]
Discover ==
    /\ pc = "start"
    /\ \E t \in TrendOutcomes :
          LET r == fetch_trending_terms(t)
          IN /\ trends' = t
             /\ terms' = r.terms
             /\ error' = r.err
             /\ IF r.err # "none" THEN pc' = "crashed" /\ seed' = seed
                ELSE IF r.terms = <<>> THEN pc' = "exit" /\ seed' = seed
                ELSE pc' = "expand" /\ seed' = r.terms[1]
    /\ UNCHANGED <<cfg, limit, rq, subtopics, vSources, vImage, vPublish,
                   driver, i, created, files0>>

\* lines 239-243
ExpandSeed ==
    /\ pc = "expand"
    /\ \E r \in RunResponses(seed) :
          /\ rq' = r
          /\ subtopics' = Expand(seed, r, limit)
    /\ i' = 1
    /\ created' = <<>>
    /\ pc' = "loop"
    /\ UNCHANGED <<error, cfg, seed, limit, vSources, vImage, vPublish,
                   driver, trends, terms, files0>>

\* lines 244-256 for subtopics[i]: the sources, or the exception of the loop
LoopSources ==
    /\ pc = "loop"
    /\ i <= Len(subtopics)
    /\ \E p \in RunSourceInputs :
          /\ provs' = p
          /\ srcs' = Aggregate(cfg, p).srcs
          /\ error' = Aggregate(cfg, p).err
          /\ pc' = IF Aggregate(cfg, p).err = "none" THEN "image" ELSE "crashed"
    /\ UNCHANGED <<cfg, vExpand, vImage, vPublish, vMain>>

\* lines 258-259: the image, then the call of make_article
LoopImage ==
    /\ pc = "image"
    /\ \E e \in RunImageInputs :
          LET r == IF cfg.FETCH_IMAGES THEN pick_image(cfg, e)
                   ELSE [img |-> None, called |-> <<>>]
          IN /\ imgs' = e
             /\ img' = r.img
             /\ called' = r.called
             /\ ma' = [topic |-> seed, subtopic |-> subtopics[i],
                       sources |-> srcs, image |-> r.img]
    /\ entry' = [files |-> files, dirs |-> dirs]
    /\ pc' = "ma_enter"
    /\ UNCHANGED <<error, cfg, vExpand, vSources, ret, dirs, files, last, vMain>>

\* lines 260-261: collect the location, go to the next subtopic
Collect ==
    /\ pc = "ma_ret"
    /\ driver = "main"
    /\ created' = IF ret # None THEN Append(created, ret.val) ELSE created
    /\ i' = i + 1
    /\ pc' = "loop"
    /\ UNCHANGED <<error, cfg, vExpand, vSources, vImage, vPublish,
                   driver, trends, terms, files0>>

\* line 263: the report
Report ==
    /\ pc = "loop"
    /\ i > Len(subtopics)
    /\ pc' = "done"
    /\ UNCHANGED <<error, cfg, vExpand, vSources, vImage, vPublish, vMain>>

Next == Discover \/ ExpandSeed \/ LoopSources \/ LoopImage \/ make_article \/ Collect \/ Report

Spec == Init /\ [][Next]_vars

(***************************************************************************)
(* SpecExpand: one call of the expansion on every input                    *)
(***************************************************************************)
InitExpand ==
    /\ pc = "call"
    /\ error = "none"
    /\ seed \in Seeds
    /\ limit \in 0..MaxLimit
    /\ rq \in Responses(seed)
    /\ subtopics = <<>>
    /\ cfg = DefaultCfg
    /\ IdleSources
    /\ IdleImage
    /\ IdlePublish
    /\ IdleMain

DoExpand ==
    /\ pc = "call"
    /\ subtopics' = Expand(seed, rq, limit)
    /\ pc' = "done"
    /\ UNCHANGED <<error, cfg, seed, limit, rq, vSources, vImage, vPublish, vMain>>

NextExpand == DoExpand

SpecExpand == InitExpand /\ [][NextExpand]_vars

(***************************************************************************)
(* SpecSources: one aggregation on every input                             *)
(***************************************************************************)
InitSources ==
    /\ pc = "call"
    /\ error = "none"
    /\ cfg \in {c \in Configs : c.FETCH_IMAGES /\ c.ALLOW_WIKIMEDIA_IMAGES}
    /\ provs \in SourceInputs
    /\ srcs = <<>>
    /\ IdleExpand
    /\ IdleImage
    /\ IdlePublish
    /\ IdleMain

DoAggregate ==
    /\ pc = "call"
    /\ LET a == Aggregate(cfg, provs)
       IN /\ srcs' = a.srcs
          /\ error' = a.err
          /\ pc' = IF a.err = "none" THEN "done" ELSE "crashed"
    /\ UNCHANGED <<cfg, provs, vExpand, vImage, vPublish, vMain>>

NextSources == DoAggregate

SpecSources == InitSources /\ [][NextSources]_vars

(***************************************************************************)
(* SpecImage: one call of pick_image on every input                        *)
(***************************************************************************)
InitImage ==
    /\ pc = "call"
    /\ error = "none"
    /\ cfg \in {c \in Configs : c.FETCH_SOURCES /\ c.FETCH_IMAGES}
    /\ imgs \in ImageInputs
    /\ img = None
    /\ called = <<>>
    /\ IdleExpand
    /\ IdleSources
    /\ IdlePublish
    /\ IdleMain

DoPickImage ==
    /\ pc = "call"
    /\ LET r == pick_image(cfg, imgs)
       IN img' = r.img /\ called' = r.called
    /\ pc' = "done"
    /\ UNCHANGED <<error, cfg, imgs, vExpand, vSources, vPublish, vMain>>

NextImage == DoPickImage

SpecImage == InitImage /\ [][NextImage]_vars

(***************************************************************************)
(* SpecPublish: make_article called again and again on one record store,   *)
(* each call in its own process when the previous one died                 *)
(***************************************************************************)
InitPublish ==
    /\ pc = "idle"
    /\ error = "none"
    /\ cfg = DefaultCfg
    /\ IdleExpand
    /\ IdleSources
    /\ IdleImage
    /\ driver = "call" /\ trends = NoTrends /\ terms = <<>> /\ i = 0
    /\ created = <<>> /\ files0 = <<>>
    /\ IdlePublish

Call ==
    /\ pc \in {"idle", "crashed"}
    /\ \E t \in PublishTopics, sub \in PublishSubtopics,
          so \in PublishSources, im \in PublishImages :
            ma' = [topic |-> t, subtopic |-> sub, sources |-> so, image |-> im]
    /\ entry' = [files |-> files, dirs |-> dirs]
    /\ last' = IF pc = "crashed" THEN NoCall ELSE last
    /\ error' = "none"
    /\ pc' = "ma_enter"
    /\ UNCHANGED <<cfg, vExpand, vSources, vImage, ret, dirs, files, vMain>>

Return ==
    /\ pc = "ma_ret"
    /\ driver = "call"
    /\ last' = <<ma.topic, ma.subtopic>>
    /\ pc' = "idle"
    /\ UNCHANGED <<error, cfg, vExpand, vSources, vImage, ma, ret, dirs, files, entry, vMain>>

NextPublish == Call \/ make_article \/ Return

SpecPublish == InitPublish /\ [][NextPublish]_vars

(***************************************************************************)
(* Claims about the expansion (SpecExpand)                                 *)
(***************************************************************************)
\* the k-th element, in increasing index order, of the positions K of c
Selected(c, K) ==
    [n \in 1..Cardinality(K) |->
        c[CHOOSE k \in K : Cardinality({j \in K : j < k}) = n - 1]]

\* what a frame offers: its whole "query" column
Offered(df) == IF df = None THEN <<>> ELSE df.val

\* the list the specification describes: rising then top, without the candidates
\* equal to the seed ignoring case, first occurrence of each ignoring case
SpecMerged(r) == Offered(r.rising) \o Offered(r.top)
SpecFiltered(term, r) ==
    LET m == SpecMerged(r)
    IN Selected(m, {k \in 1..Len(m) :
                        /\ lower(m[k]) # lower(term)
                        /\ \A j \in 1..(k - 1) : lower(m[j]) # lower(m[k])})

\* the list the code builds: the first 10 of each key, stripped, without blanks
FirstOf(df) == IF df = None THEN <<>> ELSE SubSeq(df.val, 1, Min(10, Len(df.val)))
CodeFiltered(term, r) ==
    LET m == FirstOf(r.rising) \o FirstOf(r.top)
        c == [k \in 1..Len(m) |-> strip(m[k])]
    IN Selected(c, {k \in 1..Len(c) :
                        /\ c[k] # <<>>
                        /\ lower(c[k]) # lower(term)
                        /\ \A j \in 1..(k - 1) : lower(c[j]) # lower(c[k])})

\* C5 (as claimed): when the provider answers and the merged list, without the
\* candidates equal to the seed and without repeats, is empty, the expansion is
\* the four generic angles "X explained", "X pros and cons", "X vs alternatives",
\* "X latest news", truncated to the limit.
C5_FallbackOnEmpty ==
    (pc = "done" /\ rq.kind = "ok" /\ SpecFiltered(seed, rq) = <<>>)
        => subtopics = Take(<<seed \o SufExplained, seed \o SufProsCons,
                              seed \o SufVsAlt, seed \o SufLatest>>, limit)

\* C6 (as claimed): when the provider raises or is unavailable, the expansion is
\* the list it is when the provider answers with an empty result.
C6_FailureAsEmpty ==
    (pc = "done" /\ rq.kind \in {"raise", "unavailable"})
        => subtopics = Expand(seed, EmptyResponse, limit)

\* C9 (as claimed): for every answered response the subtopic list is rising then
\* top, without the candidates equal to the seed ignoring case, deduplicated
\* ignoring case, truncated to the limit.
C9_AsClaimed ==
    (pc = "done" /\ rq.kind = "ok")
        => subtopics = Take(SpecFiltered(seed, rq), limit)

\* C9 (amended): for every answered response the subtopic list has at most limit
\* entries, no two equal ignoring case and none equal to the seed ignoring case;
\* when the response offers a candidate, the list is the first 10 rising then the
\* first 10 top candidates, stripped, without the blank ones and those equal to
\* the seed ignoring case, deduplicated ignoring case keeping the first, cut to 8
\* and then to the limit.
C9_MergeOrder ==
    (pc = "done" /\ rq.kind = "ok")
        => /\ Len(subtopics) <= limit
           /\ \A a, b \in 1..Len(subtopics) :
                  a # b => lower(subtopics[a]) # lower(subtopics[b])
           /\ \A a \in 1..Len(subtopics) : lower(subtopics[a]) # lower(seed)
           /\ SpecMerged(rq) # <<>>
                  => subtopics = Take(Take(CodeFiltered(seed, rq), 8), limit)

\* C9 witness: the example of the claim, and a response that reaches both cuts
C9_Witness ==
    /\ pc = "done" /\ rq.kind = "ok" /\ seed = SFoo /\ limit = 5
    /\ rq.rising = Some(<<SFooNews>>) /\ rq.top = Some(<<SFooFacts, SFooNews>>)
    /\ subtopics = <<SFooNews, SFooFacts>>

(***************************************************************************)
(* Claims about the aggregation (SpecSources)                              *)
(***************************************************************************)
\* the position of the first reference of c whose url is equal to u
FirstAt(c, u) ==
    CHOOSE k \in 1..Len(c) :
        /\ SetKey(c[k].url) = SetKey(u)
        /\ \A j \in 1..(k - 1) : SetKey(c[j].url) # SetKey(u)

\* C2: the list handed to publication holds each distinct url of the concatenated
\* contributions (encyclopedia, Guardian, NYT) exactly once, each by its first
\* reference, in first-occurrence order, compared by exact equality (that of
\* Python for a url that is no string); the cap of 5 removes none of them.
C2_DedupByUrl ==
    (pc = "done" /\ cfg.FETCH_SOURCES)
        => LET c == Contributions(provs)
               urls == {SetKey(c[k].url) : k \in {j \in 1..Len(c) : Truthy(c[j].url)}}
           IN /\ {SetKey(srcs[k].url) : k \in 1..Len(srcs)} = urls
              /\ \A a, b \in 1..Len(srcs) :
                     a # b => SetKey(srcs[a].url) # SetKey(srcs[b].url)
              /\ \A a \in 1..Len(srcs) : srcs[a] = c[FirstAt(c, srcs[a].url)]
              /\ \A a, b \in 1..Len(srcs) :
                     a < b => FirstAt(c, srcs[a].url) < FirstAt(c, srcs[b].url)

\* C2 witness: five contributions, one url repeated across providers and one
\* differing from it by case only
C2_Witness ==
    /\ pc = "done" /\ cfg.FETCH_SOURCES
    /\ Contributions(provs) =
          <<Ref("w1", U1), Ref("w2", U2), Ref("g1", U1c), Ref("g2", U1), Ref("n1", U3)>>
    /\ srcs = <<Ref("w1", U1), Ref("w2", U2), Ref("g1", U1c), Ref("n1", U3)>>

(***************************************************************************)
(* Claims about the image search (SpecImage)                               *)
(***************************************************************************)
ImageOrder == <<"pexels", "unsplash", "wikimedia">>
ImageFrom(p) ==
    IF p = "pexels" THEN PexelsImage
    ELSE IF p = "unsplash" THEN UnsplashImage ELSE WikimediaImage
ExchangeOf(p) ==
    IF p = "pexels" THEN imgs.pexels
    ELSE IF p = "unsplash" THEN imgs.unsplash ELSE imgs.wikimedia
\* the provider has its credential, or its flag is on
Enabled(p) ==
    IF p = "pexels" THEN imgs.pexels_key
    ELSE IF p = "unsplash" THEN imgs.unsplash_key ELSE cfg.ALLOW_WIKIMEDIA_IMAGES
\* the provider is enabled and answers without exception, with a success status
\* and a non-empty, well-formed payload
Succeeds(p) ==
    /\ Enabled(p)
    /\ ~ExchangeOf(p).exc /\ ExchangeOf(p).ok /\ ExchangeOf(p).body = "usable"
CalledSet == {called[k] : k \in 1..Len(called)}

\* C3 (as claimed): pick_image returns None when every provider fails or is
\* disabled, and the result of the one provider that succeeds when exactly one
\* does, whatever its position.
C3_FallbackComplete ==
    pc = "done"
        => /\ (\A k \in 1..3 : ~Succeeds(ImageOrder[k])) => img = None
           /\ \A k \in 1..3 :
                  (Succeeds(ImageOrder[k])
                        /\ \A j \in (1..3) \ {k} : ~Succeeds(ImageOrder[j]))
                    => img = Some(ImageFrom(ImageOrder[k]))

\* C8: the providers are requested in the order Pexels, Unsplash, Wikimedia; one
\* is requested only if it is enabled and every earlier one was skipped or was
\* requested and gave no result; the provider whose result is returned is the
\* last one requested; and when several would succeed the earliest wins.
C8_OrderedFallback ==
    pc = "done"
        => /\ called = SelectSeq(ImageOrder, LAMBDA p : p \in CalledSet)
           /\ \A k \in 1..3 :
                  ImageOrder[k] \in CalledSet
                    => /\ Enabled(ImageOrder[k])
                       /\ \A j \in 1..(k - 1) :
                              \/ ~Enabled(ImageOrder[j])
                              \/ /\ ImageOrder[j] \in CalledSet
                                 /\ img # Some(ImageFrom(ImageOrder[j]))
           /\ \A k \in 1..3 :
                  (Enabled(ImageOrder[k]) /\ img = None) => ImageOrder[k] \in CalledSet
           /\ img # None => img = Some(ImageFrom(called[Len(called)]))
           /\ \A k \in 1..3 :
                  (Succeeds(ImageOrder[k]) /\ \A j \in 1..(k - 1) : ~Succeeds(ImageOrder[j]))
                    => /\ img = Some(ImageFrom(ImageOrder[k]))
                       /\ called[Len(called)] = ImageOrder[k]

\* C8 witness: Pexels answers with an error status, Unsplash and Wikimedia would
\* both succeed; Unsplash is returned and Wikimedia is never requested
C8_Witness ==
    /\ pc = "done"
    /\ imgs.pexels_key /\ ~imgs.pexels.exc /\ ~imgs.pexels.ok
    /\ Succeeds("unsplash") /\ Succeeds("wikimedia")
    /\ img = Some(UnsplashImage)
    /\ called = <<"pexels", "unsplash">>

(***************************************************************************)
(* Claims about the publication (SpecPublish)                              *)
(***************************************************************************)
InMakeArticle == pc \in {"ma_enter", "ma_open", "ma_write", "ma_ret"}

\* C1: a call of make_article never changes a file that existed when it was
\* entered, not even when it dies; it returns None exactly when the identifier
\* existed, and then the store is as it was; otherwise the store gains exactly the
\* one record of the call; and a call with the (seed, subtopic) of the call that
\* returned just before it returns None and leaves the store unchanged, whatever
\* sources and image it carries.
C1_Idempotent ==
    /\ (InMakeArticle \/ pc = "crashed")
          => \A sl \in DOMAIN entry.files :
                 sl \in DOMAIN files /\ files[sl] = entry.files[sl]
    /\ pc = "ma_ret"
          => /\ (ret = None) <=> (CurSlug \in DOMAIN entry.files)
             /\ ret = None => (files = entry.files /\ dirs = entry.dirs)
             /\ ret # None
                   => /\ ret = Some(CurSlug)
                      /\ DOMAIN files = DOMAIN entry.files \cup {CurSlug}
                      /\ files[CurSlug] = Record(ma)
             /\ last = <<ma.topic, ma.subtopic>>
                   => /\ ret = None
                      /\ files = entry.files /\ dirs = entry.dirs
                      /\ CurSlug \in DOMAIN files

\* C1 witness: the second of two calls with the same (seed, subtopic) has
\* returned None; the record of the first call is there, with other sources and
\* another image than the second call carries
C1_Witness ==
    /\ pc = "ma_ret" /\ last = <<ma.topic, ma.subtopic>> /\ ret = None
    /\ CurSlug \in DOMAIN files
    /\ files[CurSlug].state = "complete"
    /\ files[CurSlug].title = Title(ma.topic, ma.subtopic)
    /\ files[CurSlug].sources # ma.sources
    /\ files[CurSlug].image # ma.image

\* C10 (as claimed): whenever no call is in progress, also after a call died
\* partway, every identifier holds no record or one complete record; and a call
\* that skipped as a duplicate found a complete record.
C10_AllOrNothing ==
    /\ pc \in {"idle", "crashed"}
          => \A sl \in DOMAIN files : files[sl].state = "complete"
    /\ (pc = "ma_ret" /\ ret = None) => files[CurSlug].state = "complete"

(***************************************************************************)
(* Claims about the run (Spec)                                             *)
(***************************************************************************)
CreatedSet == {created[k] : k \in 1..Len(created)}
\* the position of the first subtopic whose identifier is sl
FirstSubtopic(sl) ==
    CHOOSE k \in 1..Len(subtopics) :
        /\ Slug(seed, subtopics[k]) = sl
        /\ \A j \in 1..(k - 1) : Slug(seed, subtopics[j]) # sl

\* the strings a region that answered offers, stripped
RegionTerms(r) ==
    {strip(r.terms[k].val) : k \in {j \in 1..Len(r.terms) : r.terms[j] # None}}

\* C4 (as claimed): no failure of a provider call leaves main as an exception; a
\* region that fails does not keep the terms of the other regions out of the
\* discovery; only an empty discovery ends the run early, and a run that found a
\* trending term processes every subtopic.
C4_FaultIsolation ==
    /\ error \notin {"Exception", "TypeError"}
    /\ pc # "start"
          => \A k \in 1..Len(trends.regions) :
                 trends.regions[k].kind = "ok"
                    => \A t \in RegionTerms(trends.regions[k]) :
                           \/ Len(terms) = TrendCap
                           \/ \E n \in 1..Len(terms) : lower(terms[n]) = lower(t)
    /\ pc = "exit" => terms = <<>>
    /\ pc = "done" => i = Len(subtopics) + 1

\* C7 (as claimed): a run whose discovery found a term reaches its end, and the
\* report lists exactly the records that did not exist before the run and were
\* written during it, once each, in subtopic order; a run whose discovery found
\* nothing writes no record.
C7_ReportExact ==
    /\ terms # <<>> => pc # "crashed"
    /\ pc = "done"
          => /\ CreatedSet = DOMAIN files \ DOMAIN files0
             /\ \A a, b \in 1..Len(created) : a # b => created[a] # created[b]
             /\ \A sl \in CreatedSet : files[sl].state = "complete"
             /\ \A sl \in DOMAIN files0 : files[sl] = files0[sl]
             /\ \A a, b \in 1..Len(created) :
                    a < b => FirstSubtopic(created[a]) < FirstSubtopic(created[b])
    /\ pc = "exit" => (terms = <<>> /\ files = files0)

====
